---- MODULE Spec2Model ----
(***************************************************************************)
(* TinyProbe (ATtiny13A logic probe), interrupt-enabled firmware v1.0:     *)
(* software/TinyProbe.ino lines 45-144 (the file goes on with two older    *)
(* versions of the sketch, which are not modelled).  The main loop is one  *)
(* step per group of statements between two points where the probe line    *)
(* or the pin change interrupt can interfere; the probe line itself and    *)
(* the ADC readings are the environment.                                   *)
(***************************************************************************)
EXTENDS Integers, Sequences

\* ---------------------------------------------------------------- constants
TTL_LOW == 164
TTL_HIGH == 409
CMOS_LOW == 307
CMOS_HIGH == 716
OSC_DUR == 50
\* if(valSwitch < 768)
SWITCH_MID == 768
\* GIMSK = 0b00100000 and SREG |= 0b10000000: set once in the setup, never changed
GIMSK == 32

\* ------------------------------------------------------------------- bounds
\* cap of the history counter of cycles since a detector last assigned the counter
MaxSince == 51

\* ADC readings the environment delivers: the last code on either side of the
\* comparison of line 90, and for each of the four thresholds the last code on
\* either side of the comparison of line 118 or 119.
CalReadings == {SWITCH_MID - 1, SWITCH_MID}
ProbeReadings ==
  {TTL_LOW - 1, TTL_LOW, CMOS_LOW - 1, CMOS_LOW,
   TTL_HIGH, TTL_HIGH + 1, CMOS_HIGH, CMOS_HIGH + 1}

\* what drives the probe line from outside: a source at logic high, a source at
\* logic low, or nothing
LineStates == {"high", "low", "open"}

\* ------------------------------------------------------- uint8_t arithmetic
RECURSIVE BitAnd(_, _)
BitAnd(x, y) ==
  IF x = 0 \/ y = 0 THEN 0
  ELSE (x % 2) * (y % 2) + 2 * BitAnd(x \div 2, y \div 2)

BitOr(x, y) == x + y - BitAnd(x, y)

BitNot(x) == 255 - x

\* isOscillating-- on a uint8_t
DecNone(n) == n
Dec(n) == (n + 255) % 256

VARIABLES
  pc,             \* position of main() in the loop body
  DDRB, PORTB,    \* port B direction and output registers
  ADMUX, ADCSRA,  \* ADC channel selection, ADC control (bit 6: conversion running)
  GIFR, PCMSK,    \* pin change interrupt flag (bit 5), pin change mask
  isOscillating,  \* volatile uint8_t, shared with the ISR
  valSwitch, valProbe, valHigh, valLow,
  isHigh, isLow, lastHigh, lastLow,
  isFloating,
  line,           \* environment: what drives the probe line
  edgeSeen,       \* history: an edge set the interrupt flag in this cycle
  slowFired,      \* history: the slow detector assigned the counter in this cycle
  upLevel, downLevel, \* history: PB3 as sampled under pull-up and under pull-down
  steady,         \* history: the line state has not changed in this cycle
  driven,         \* history: the line has been driven (high or low) all through
                  \* this cycle
  startCount,     \* history: isOscillating at the start of this cycle, -1 once
                  \* a detector has fired in the cycle
  cycles,         \* history: 0 in the first cycle, 1 afterwards
  prevHigh, prevLow, \* history: classification of the previous cycle
  prevFloating,   \* history: the floating detector's result of the previous
                  \* cycle, -1 when there is none or the line state has changed
                  \* since that cycle started
  lowThenMid,     \* history: the previous cycle classified the reading as
                  \* neither HIGH nor LOW and the cycle before it as LOW, and
                  \* no detector has assigned the counter since reset
  quiet,          \* history: cycles completed since the last cycle in which a
                  \* detector assigned the counter, -1 while none has
  byEdge          \* history: that cycle had an edge in the arm window

vars == <<pc, DDRB, PORTB, ADMUX, ADCSRA, GIFR, PCMSK, isOscillating,
          valSwitch, valProbe, valHigh, valLow, isHigh, isLow, lastHigh, lastLow,
          isFloating, line, edgeSeen, slowFired, upLevel, downLevel, steady,
          driven, startCount,
          cycles, prevHigh, prevLow, prevFloating, lowThenMid, quiet, byEdge>>

regs == <<DDRB, PORTB, ADMUX, ADCSRA, GIFR, PCMSK>>
locals == <<valSwitch, valProbe, valHigh, valLow, isHigh, isLow, lastHigh,
            lastLow, isFloating>>
hist == <<edgeSeen, slowFired, upLevel, downLevel, steady, driven, startCount, cycles,
          prevHigh,
          prevLow, prevFloating, lowThenMid, quiet, byEdge>>

\* cycles completed since the last cycle with an in-window edge, provided the
\* slow detector has not fired alone since; -1 otherwise
since == IF quiet >= 0 /\ byEdge THEN quiet ELSE -1

\* ------------------------------------------------------------ the probe pin
\* Digital level of PB3.  A driven line keeps its level against the 100k bias
\* resistor; an undriven line follows the bias (PB4 output high or low).  With
\* PB4 released the level of an undriven line is not defined; the firmware never
\* samples PB3 digitally in that state.
LevelOf(l, ddrb, portb) ==
  CASE l = "high" -> 1
    [] l = "low" -> 0
    [] OTHER -> IF BitAnd(ddrb, 16) # 0 /\ BitAnd(portb, 16) # 0 THEN 1 ELSE 0

ProbeLevel == LevelOf(line, DDRB, PORTB)

\* PINB: the LED pins read back their outputs, bit 3 is the probe, bit 4 the pull
\* pin (its output, or the line behind the resistor when released), bit 5 the
\* level select pin, which sits anywhere between 40% and 100% of VCC.
PINB(pb5) ==
  BitAnd(PORTB, 7) + 8 * ProbeLevel
    + 16 * (IF BitAnd(DDRB, 16) # 0 THEN BitAnd(PORTB, 16) \div 16 ELSE ProbeLevel)
    + 32 * pb5

\* GIFR after the level of PB3 went from `before' to `after': a change sets the
\* pin change flag while PCMSK selects the pin
PinChangeFlagUnmasked(gifr, before, after) ==
  IF before # after THEN BitOr(gifr, 32) ELSE gifr
PinChangeFlag(gifr, before, after) ==
  IF BitAnd(PCMSK, 8) # 0 /\ before # after THEN BitOr(gifr, 32) ELSE gifr

\* no pin change interrupt pending: the CPU serves a pending interrupt before
\* the next instruction of main()
NoIrq == BitAnd(GIFR, GIMSK) = 0

Init ==
  /\ pc = "adc0_start"
  /\ DDRB = 7
  /\ PORTB = 0
  /\ ADMUX = 0
  /\ ADCSRA = 131
  /\ GIFR = 0
  /\ PCMSK = 0
  /\ isOscillating = 0
  /\ valSwitch = 0 /\ valProbe = 0 /\ valHigh = 0 /\ valLow = 0
  /\ isHigh = FALSE /\ isLow = FALSE
  /\ isFloating = 0
  \* lastHigh and lastLow are read (line 122) before they are first assigned
  /\ lastHigh \in BOOLEAN
  /\ lastLow \in BOOLEAN
  /\ line \in LineStates
  /\ edgeSeen = FALSE /\ slowFired = FALSE
  /\ upLevel = 0 /\ downLevel = 0
  /\ steady = TRUE
  /\ driven = (line # "open")
  /\ startCount = 0
  /\ cycles = 0
  /\ prevHigh = FALSE /\ prevLow = FALSE
  /\ prevFloating = -1
  /\ lowThenMid = FALSE
  /\ quiet = -1
  /\ byEdge = FALSE

\* ------------------------------------------------------------ pure helpers
\* lines 84-85 and 90-93: TTL by default, CMOS when the switch reads below 768
ValLowForInclusive(c) == IF c <= SWITCH_MID THEN CMOS_LOW ELSE TTL_LOW
ValLowFor(c) == IF c < SWITCH_MID THEN CMOS_LOW ELSE TTL_LOW

ValHighFor(c) == IF c < SWITCH_MID THEN CMOS_HIGH ELSE TTL_HIGH

\* line 118
IsHighOfInclusive(r, vh) == r >= vh
IsHighOf(r, vh) == r > vh

\* line 119
IsLowOf(r, vl) == r < vl

\* lines 108-109: isFloating &= ~PINB; isFloating &= 0b00001000
FloatResultWideMask(first, pinb) == BitAnd(BitAnd(first, BitNot(pinb)), 24)
FloatResultOtherPin(first, pinb) == BitAnd(BitAnd(first, BitNot(pinb)), 40)
FloatResult(first, pinb) == BitAnd(BitAnd(first, BitNot(pinb)), 8)

\* line 122: the condition under which the slow detector assigns the counter
SlowCond(fl, hi, lo, lhi, llo) == fl = 0 /\ ((hi /\ llo) \/ (lo /\ lhi))

\* line 124: if(isOscillating) isFloating = 0
OverrideNever(fl, osc) == fl
Override(fl, osc) == IF osc # 0 THEN 0 ELSE fl

\* lines 127-134: the value written to PORTB by the encoder
SetLEDsFallThrough(portb, fl, hi, lo, osc) ==
  LET off == BitAnd(portb, 248)
      a == IF fl # 0 THEN BitOr(off, 4) ELSE off
      b == IF lo THEN BitOr(a, 2) ELSE a
      c == IF hi THEN BitOr(b, 5) ELSE b
  IN IF osc # 0 THEN BitOr(BitAnd(c, 251), 1) ELSE c
SetLEDsOscKeepsBit2(portb, fl, hi, lo, osc) ==
  LET off == BitAnd(portb, 248)
  IN IF fl # 0 THEN BitOr(off, 4)
     ELSE LET b == IF lo THEN BitOr(off, 2) ELSE off
              c == IF hi THEN BitOr(b, 5) ELSE b
          IN IF osc # 0 THEN BitOr(c, 1) ELSE c
SetLEDsNoClear(portb, fl, hi, lo, osc) ==
  IF fl # 0 THEN BitOr(portb, 4)
  ELSE LET b == IF lo THEN BitOr(portb, 2) ELSE portb
           c == IF hi THEN BitOr(b, 5) ELSE b
       IN IF osc # 0 THEN BitOr(BitAnd(c, 251), 1) ELSE c
SetLEDsOscClearsLow(portb, fl, hi, lo, osc) ==
  LET off == BitAnd(portb, 248)
  IN IF fl # 0 THEN BitOr(off, 4)
     ELSE LET b == IF lo THEN BitOr(off, 2) ELSE off
              c == IF hi THEN BitOr(b, 5) ELSE b
          IN IF osc # 0 THEN BitOr(BitAnd(c, 249), 1) ELSE c
SetLEDs(portb, fl, hi, lo, osc) ==
  LET off == BitAnd(portb, 248)
  IN IF fl # 0 THEN BitOr(off, 4)
     ELSE LET b == IF lo THEN BitOr(off, 2) ELSE off
              c == IF hi THEN BitOr(b, 5) ELSE b
          IN IF osc # 0 THEN BitOr(BitAnd(c, 251), 1) ELSE c

\* line 135, reached only when not floating and the counter is nonzero
CountAfterStopsAtOne(fl, osc) == IF fl = 0 /\ osc > 1 THEN Dec(osc) ELSE osc
CountAfterWraps(fl, osc) == IF fl = 0 THEN Dec(osc) ELSE osc
CountAfterHoldsAtMax(fl, osc) ==
  IF fl = 0 /\ osc # 0 /\ osc # OSC_DUR THEN Dec(osc) ELSE osc
CountAfter(fl, osc) == IF fl = 0 /\ osc # 0 THEN Dec(osc) ELSE osc

\* ------------------------------------------------------------------ main()
\* lines 84-87: default thresholds, select ADC0, start the conversion
AdcStart0 ==
  /\ pc = "adc0_start" /\ NoIrq
  /\ valLow' = TTL_LOW /\ valHigh' = TTL_HIGH
  /\ ADMUX' = 0
  /\ ADCSRA' = BitOr(ADCSRA, 64)
  /\ pc' = "adc0_wait"
  /\ edgeSeen' = FALSE /\ slowFired' = FALSE
  /\ upLevel' = 0 /\ downLevel' = 0
  /\ steady' = TRUE
  /\ driven' = (line # "open")
  /\ startCount' = isOscillating
  /\ UNCHANGED <<DDRB, PORTB, GIFR, PCMSK, isOscillating, valSwitch, valProbe,
                 isHigh, isLow, lastHigh, lastLow, isFloating, line, cycles,
                 prevHigh, prevLow, prevFloating, lowThenMid, quiet, byEdge>>

\* lines 88-93: the conversion completes (hardware clears ADSC), the result is
\* read and the thresholds are chosen
AdcRead0 ==
  /\ pc = "adc0_wait" /\ NoIrq
  /\ \E c \in CalReadings :
       /\ valSwitch' = c
       /\ valLow' = ValLowFor(c)
       /\ valHigh' = ValHighFor(c)
  /\ ADCSRA' = BitAnd(ADCSRA, 191)
  /\ pc' = "pullup"
  /\ UNCHANGED <<DDRB, PORTB, ADMUX, GIFR, PCMSK, isOscillating, valProbe,
                 isHigh, isLow, lastHigh, lastLow, isFloating, line>>
  /\ UNCHANGED hist

\* lines 96-98: PB4 output high, the probe line is pulled up
PullUp ==
  /\ pc = "pullup" /\ NoIrq
  /\ DDRB' = BitOr(DDRB, 16)
  /\ PORTB' = BitOr(PORTB, 16)
  /\ GIFR' = PinChangeFlag(GIFR, ProbeLevel, LevelOf(line, DDRB', PORTB'))
  /\ pc' = "clear"
  /\ UNCHANGED <<ADMUX, ADCSRA, PCMSK, isOscillating, line>>
  /\ UNCHANGED locals
  /\ UNCHANGED hist

\* line 99: GIFR |= 0b00100000; writing a one to a flag of GIFR clears it
ClearPending ==
  /\ pc = "clear" /\ NoIrq
  /\ GIFR' = BitAnd(GIFR, BitNot(BitOr(GIFR, 32)))
  /\ pc' = "arm"
  /\ UNCHANGED <<DDRB, PORTB, ADMUX, ADCSRA, PCMSK, isOscillating, line>>
  /\ UNCHANGED locals
  /\ UNCHANGED hist

\* line 100
Arm ==
  /\ pc = "arm" /\ NoIrq
  /\ PCMSK' = 8
  /\ pc' = "window"
  /\ UNCHANGED <<DDRB, PORTB, ADMUX, ADCSRA, GIFR, isOscillating, line>>
  /\ UNCHANGED locals
  /\ UNCHANGED hist

\* line 101: _delay_ms(1) runs out
Window ==
  /\ pc = "window" /\ NoIrq
  /\ pc' = "disarm"
  /\ UNCHANGED <<isOscillating, line>>
  /\ UNCHANGED regs
  /\ UNCHANGED locals
  /\ UNCHANGED hist

\* line 102
DisarmKeepsArmed ==
  /\ pc = "disarm" /\ NoIrq
  /\ pc' = "readUp"
  /\ UNCHANGED <<isOscillating, line>>
  /\ UNCHANGED regs
  /\ UNCHANGED locals
  /\ UNCHANGED hist
Disarm ==
  /\ pc = "disarm" /\ NoIrq
  /\ PCMSK' = 0
  /\ pc' = "readUp"
  /\ UNCHANGED <<DDRB, PORTB, ADMUX, ADCSRA, GIFR, isOscillating, line>>
  /\ UNCHANGED locals
  /\ UNCHANGED hist
\* line 105: isFloating = PINB, sampled with the pull-up still applied
ReadUp ==
  /\ pc = "readUp" /\ NoIrq
  /\ \E pb5 \in {0, 1} : isFloating' = PINB(pb5)
  /\ upLevel' = ProbeLevel
  /\ pc' = "pulldown"
  /\ UNCHANGED <<isOscillating, line, valSwitch, valProbe, valHigh, valLow,
                 isHigh, isLow, lastHigh, lastLow>>
  /\ UNCHANGED regs
  /\ UNCHANGED <<edgeSeen, slowFired, downLevel, steady, driven, startCount, cycles,
                 prevHigh, prevLow, prevFloating, lowThenMid, quiet, byEdge>>

\* lines 106-107: PB4 output low, the probe line is pulled down
PullDown ==
  /\ pc = "pulldown" /\ NoIrq
  /\ PORTB' = BitAnd(PORTB, 239)
  /\ GIFR' = PinChangeFlag(GIFR, ProbeLevel, LevelOf(line, DDRB, PORTB'))
  /\ pc' = "readDown"
  /\ UNCHANGED <<DDRB, ADMUX, ADCSRA, PCMSK, isOscillating, line>>
  /\ UNCHANGED locals
  /\ UNCHANGED hist

\* lines 108-109
ReadDown ==
  /\ pc = "readDown" /\ NoIrq
  /\ \E pb5 \in {0, 1} : isFloating' = FloatResult(isFloating, PINB(pb5))
  /\ downLevel' = ProbeLevel
  /\ pc' = "release"
  /\ UNCHANGED <<isOscillating, line, valSwitch, valProbe, valHigh, valLow,
                 isHigh, isLow, lastHigh, lastLow>>
  /\ UNCHANGED regs
  /\ UNCHANGED <<edgeSeen, slowFired, upLevel, steady, driven, startCount, cycles,
                 prevHigh, prevLow, prevFloating, lowThenMid, quiet, byEdge>>

\* lines 110-111: PB4 back to input
ReleaseKeepsBias ==
  /\ pc = "release" /\ NoIrq
  /\ pc' = "adc3_start"
  /\ UNCHANGED <<isOscillating, line>>
  /\ UNCHANGED regs
  /\ UNCHANGED locals
  /\ UNCHANGED hist
Release ==
  /\ pc = "release" /\ NoIrq
  /\ DDRB' = BitAnd(DDRB, 239)
  /\ GIFR' = PinChangeFlag(GIFR, ProbeLevel, LevelOf(line, DDRB', PORTB))
  /\ pc' = "adc3_start"
  /\ UNCHANGED <<PORTB, ADMUX, ADCSRA, PCMSK, isOscillating, line>>
  /\ UNCHANGED locals
  /\ UNCHANGED hist

\* lines 114-115: select ADC3, start the conversion
AdcStart3 ==
  /\ pc = "adc3_start" /\ NoIrq
  /\ ADMUX' = 3
  /\ ADCSRA' = BitOr(ADCSRA, 64)
  /\ pc' = "adc3_wait"
  /\ UNCHANGED <<DDRB, PORTB, GIFR, PCMSK, isOscillating, line>>
  /\ UNCHANGED locals
  /\ UNCHANGED hist

\* lines 116-119: the conversion completes, the probe voltage is classified.
\* The voltage is whatever is on the line at that moment; it is not tied to the
\* digital level PB3 showed earlier in the cycle.
AdcRead3 ==
  /\ pc = "adc3_wait" /\ NoIrq
  /\ \E r \in ProbeReadings :
       /\ valProbe' = r
       /\ isHigh' = IsHighOf(r, valHigh)
       /\ isLow' = IsLowOf(r, valLow)
  /\ ADCSRA' = BitAnd(ADCSRA, 191)
  /\ pc' = "slow"
  /\ UNCHANGED <<DDRB, PORTB, ADMUX, GIFR, PCMSK, isOscillating, valSwitch,
                 valHigh, valLow, lastHigh, lastLow, isFloating, line>>
  /\ UNCHANGED hist

\* lines 122-123: slow oscillation detector, then the classification is kept
SlowDetectKeepsLastOnMid ==
  /\ pc = "slow" /\ NoIrq
  /\ LET fire == SlowCond(isFloating, isHigh, isLow, lastHigh, lastLow)
     IN /\ isOscillating' = IF fire THEN OSC_DUR ELSE isOscillating
        /\ slowFired' = fire
        /\ startCount' = IF fire THEN -1 ELSE startCount
  /\ lastHigh' = (IF isHigh \/ isLow THEN isHigh ELSE lastHigh)
  /\ lastLow' = (IF isHigh \/ isLow THEN isLow ELSE lastLow)
  /\ pc' = "override"
  /\ UNCHANGED <<valSwitch, valProbe, valHigh, valLow, isHigh, isLow,
                 isFloating, line>>
  /\ UNCHANGED regs
  /\ UNCHANGED <<edgeSeen, upLevel, downLevel, steady, driven, cycles, prevHigh,
                 prevLow, prevFloating, lowThenMid, quiet, byEdge>>
SlowDetect ==
  /\ pc = "slow" /\ NoIrq
  /\ LET fire == SlowCond(isFloating, isHigh, isLow, lastHigh, lastLow)
     IN /\ isOscillating' = IF fire THEN OSC_DUR ELSE isOscillating
        /\ slowFired' = fire
        /\ startCount' = IF fire THEN -1 ELSE startCount
  /\ lastHigh' = isHigh
  /\ lastLow' = isLow
  /\ pc' = "override"
  /\ UNCHANGED <<valSwitch, valProbe, valHigh, valLow, isHigh, isLow,
                 isFloating, line>>
  /\ UNCHANGED regs
  /\ UNCHANGED <<edgeSeen, upLevel, downLevel, steady, driven, cycles, prevHigh,
                 prevLow, prevFloating, lowThenMid, quiet, byEdge>>

\* line 124
OverrideFloating ==
  /\ pc = "override" /\ NoIrq
  /\ isFloating' = Override(isFloating, isOscillating)
  /\ pc' = "encode"
  /\ prevFloating' = IF steady THEN isFloating ELSE -1
  /\ UNCHANGED <<isOscillating, line, valSwitch, valProbe, valHigh, valLow,
                 isHigh, isLow, lastHigh, lastLow>>
  /\ UNCHANGED regs
  /\ UNCHANGED <<edgeSeen, slowFired, upLevel, downLevel, steady, driven,
                 startCount, cycles, prevHigh, prevLow, lowThenMid,
                 quiet, byEdge>>

\* lines 127-137: the LEDs are set and the counter decays; the loop starts over
EncodeSkipsSelection ==
  /\ pc = "encode" /\ NoIrq
  /\ PORTB' = SetLEDs(PORTB, isFloating, isHigh, isLow, isOscillating)
  /\ isOscillating' = CountAfter(isFloating, isOscillating)
  /\ pc' = "pullup"
  /\ cycles' = 1
  /\ prevHigh' = isHigh
  /\ prevLow' = isLow
  /\ UNCHANGED <<DDRB, ADMUX, ADCSRA, GIFR, PCMSK, line>>
  /\ UNCHANGED locals
  /\ lowThenMid' = (cycles = 1 /\ prevLow /\ ~isHigh /\ ~isLow
                    /\ quiet = -1 /\ startCount # -1)
  /\ quiet' = IF startCount = -1 THEN 0
              ELSE IF quiet < 0 THEN -1
              ELSE IF quiet < MaxSince THEN quiet + 1 ELSE quiet
  /\ byEdge' = IF startCount = -1 THEN edgeSeen ELSE byEdge
  /\ UNCHANGED <<edgeSeen, slowFired, upLevel, downLevel, steady, driven,
                 startCount, prevFloating>>
Encode ==
  /\ pc = "encode" /\ NoIrq
  /\ PORTB' = SetLEDs(PORTB, isFloating, isHigh, isLow, isOscillating)
  /\ isOscillating' = CountAfter(isFloating, isOscillating)
  /\ pc' = "adc0_start"
  /\ cycles' = 1
  /\ prevHigh' = isHigh
  /\ prevLow' = isLow
  /\ UNCHANGED <<DDRB, ADMUX, ADCSRA, GIFR, PCMSK, line>>
  /\ UNCHANGED locals
  /\ lowThenMid' = (cycles = 1 /\ prevLow /\ ~isHigh /\ ~isLow
                    /\ quiet = -1 /\ startCount # -1)
  /\ quiet' = IF startCount = -1 THEN 0
              ELSE IF quiet < 0 THEN -1
              ELSE IF quiet < MaxSince THEN quiet + 1 ELSE quiet
  /\ byEdge' = IF startCount = -1 THEN edgeSeen ELSE byEdge
  /\ UNCHANGED <<edgeSeen, slowFired, upLevel, downLevel, steady, driven,
                 startCount, prevFloating>>

\* --------------------------------------------------------------- interrupt
\* lines 142-144: ISR(PCINT0_vect); the hardware clears the flag on entry
PinChangeISRKeepsRunning ==
  /\ ~NoIrq
  /\ isOscillating' = IF isOscillating # 0 THEN isOscillating ELSE OSC_DUR
  /\ GIFR' = BitAnd(GIFR, BitNot(32))
  /\ startCount' = -1
  /\ UNCHANGED <<pc, DDRB, PORTB, ADMUX, ADCSRA, PCMSK, line>>
  /\ UNCHANGED locals
  /\ UNCHANGED <<edgeSeen, slowFired, upLevel, downLevel, steady, driven, cycles,
                 prevHigh, prevLow, prevFloating, lowThenMid, quiet, byEdge>>
PinChangeISR ==
  /\ ~NoIrq
  /\ isOscillating' = OSC_DUR
  /\ GIFR' = BitAnd(GIFR, BitNot(32))
  /\ startCount' = -1
  /\ UNCHANGED <<pc, DDRB, PORTB, ADMUX, ADCSRA, PCMSK, line>>
  /\ UNCHANGED locals
  /\ UNCHANGED <<edgeSeen, slowFired, upLevel, downLevel, steady, driven, cycles,
                 prevHigh, prevLow, prevFloating, lowThenMid, quiet, byEdge>>

\* ------------------------------------------------------------- environment
\* The source on the probe line changes at any time.  A change of the level of
\* PB3 while PCMSK selects the pin sets the pin change flag.
LineChange ==
  /\ \E l \in LineStates \ {line} :
       /\ line' = l
       /\ LET edge == BitAnd(PCMSK, 8) # 0
                         /\ LevelOf(l, DDRB, PORTB) # ProbeLevel
          IN /\ GIFR' = IF edge THEN BitOr(GIFR, 32) ELSE GIFR
             /\ edgeSeen' = (edgeSeen \/ edge)
  /\ steady' = FALSE
  /\ driven' = (driven /\ line' # "open")
  /\ prevFloating' = -1
  /\ UNCHANGED <<pc, DDRB, PORTB, ADMUX, ADCSRA, PCMSK, isOscillating>>
  /\ UNCHANGED locals
  /\ UNCHANGED <<slowFired, upLevel, downLevel, startCount, cycles, prevHigh,
                 prevLow, lowThenMid, quiet, byEdge>>

Next ==
  \/ AdcStart0 \/ AdcRead0 \/ PullUp \/ ClearPending \/ Arm \/ Window \/ Disarm
  \/ ReadUp \/ PullDown \/ ReadDown \/ Release \/ AdcStart3 \/ AdcRead3
  \/ SlowDetect \/ OverrideFloating \/ Encode
  \/ PinChangeISR
  \/ LineChange

Spec == Init /\ [][Next]_vars

\* ------------------------------------------------- fair specification
\* Progress of main() does not depend on what the ADC returns: no guard of a
\* step reads a variable the conversions assign.  The fair specification
\* therefore takes the readings from smaller sets: the mode switch stays in the
\* TTL position and the probe reads one LOW and one HIGH voltage, which keeps
\* the slow detector firing.  Everything else is as in Spec.
LiveCalReadings == {SWITCH_MID}
LiveProbeReadings == {TTL_LOW - 1, TTL_HIGH + 1}

LiveAdcRead0 == AdcRead0 /\ valSwitch' \in LiveCalReadings
LiveAdcRead3 == AdcRead3 /\ valProbe' \in LiveProbeReadings

\* The steps of main().  The loop of lines 82-138 has no exit.
MainStep ==
  \/ AdcStart0 \/ LiveAdcRead0 \/ PullUp \/ ClearPending \/ Arm \/ Window
  \/ Disarm \/ ReadUp \/ PullDown \/ ReadDown \/ Release \/ AdcStart3
  \/ LiveAdcRead3 \/ SlowDetect \/ OverrideFloating \/ Encode

LiveNext == MainStep \/ PinChangeISR \/ LineChange

\* Scheduling of the AVR core.  A pending, enabled interrupt is served once the
\* current instruction is finished (weak fairness of the ISR).  After the
\* return from an ISR the core executes one more instruction of main() before
\* it serves another interrupt, so edges on the line, however frequent, cannot
\* stop main() for good; the delays of lines 98 and 101 are finite and every
\* started ADC conversion completes (strong fairness of the steps of main(),
\* which are disabled only while an interrupt is pending).
FairSpec ==
  /\ Init /\ [][LiveNext]_vars
  /\ SF_vars(MainStep)
  /\ WF_vars(PinChangeISR)
\* ------------------------------------------------------------ observations
\* The three charlieplexing outputs PB0-PB2 and the patterns the encoder writes
\* for each indicator (lines 128-134).
LEDs == BitAnd(PORTB, 7)
ShowsFloating == LEDs = 4
ShowsHigh == LEDs = 5
ShowsLow == BitAnd(LEDs, 2) # 0
ShowsOsc == BitAnd(LEDs, 5) = 1

\* A cycle has just been completed: PORTB, the counter, the flags and the
\* history variables are those the cycle ended with.
CycleEnd == pc = "adc0_start" /\ cycles = 1

\* The floating detector has run and line 124 has not yet touched its result.
AfterFloatCheck == pc \in {"release", "adc3_start", "adc3_wait", "slow", "override"}

\* The classification of lines 118-119 is the current cycle's.
Classified == pc \in {"slow", "override", "encode"}

\* The counter was nonzero at line 132 of the cycle that has just ended: it was
\* nonzero at the start of the cycle or a detector assigned it.
OscAtEncoder == startCount # 0

\* PB4 is neither driven nor pulled up
BiasReleased == BitAnd(DDRB, 16) = 0 /\ BitAnd(PORTB, 16) = 0

\* lines 96-110: the part of the cycle in which PB4 is an output
BiasStages ==
  {"clear", "arm", "window", "disarm", "readUp", "pulldown", "readDown", "release"}

\* lines 100-102: the part of the cycle in which PCMSK selects the probe pin
ArmedStages == {"window", "disarm"}

\* C1: in a cycle whose floating flag is still set when the encoder runs, the
\* LED bits at the end of the cycle are exactly the FLOATING pattern 0b100;
\* and whatever isHigh, isLow and the counter are, the encoder called with the
\* flag set writes that pattern.
FloatingDominates ==
  /\ CycleEnd /\ isFloating # 0
       => LEDs = 4 /\ ~ShowsHigh /\ ~ShowsLow /\ ~ShowsOsc
  /\ pc = "encode"
       => \A hi \in BOOLEAN, lo \in BOOLEAN, osc \in {0, 1, OSC_DUR} :
            BitAnd(SetLEDs(PORTB, 8, hi, lo, osc), 7) = 4

\* a floating cycle whose probe reading classified HIGH has ended
FloatingDominatesSeen ==
  CycleEnd /\ isFloating # 0 /\ isHigh /\ lastHigh /\ LEDs = 4

\* C2: whenever the counter is nonzero after the slow detector has run, the
\* floating flag is zero when the encoder starts; a cycle that ends showing
\* FLOATING is one in which the counter was 0 from start to end and no detector
\* fired.
OscOverridesFloating ==
  /\ pc = "encode" /\ isOscillating # 0 => isFloating = 0
  /\ CycleEnd /\ ShowsFloating
       => isOscillating = 0 /\ startCount = 0 /\ ~edgeSeen /\ ~slowFired

\* the floating detector said floating, the counter was nonzero, the flag is gone
OscOverridesFloatingSeen ==
  pc = "encode" /\ upLevel = 1 /\ downLevel = 0 /\ isOscillating # 0
    /\ isFloating = 0

\* C3: a cycle during which the driven line changed level (it was driven all
\* through the cycle and its state changed) does not end showing FLOATING.
TogglingNeverFloating ==
  CycleEnd /\ driven /\ ~steady => ~ShowsFloating

\* C4 as stated: a cycle with an edge in the arm window ends with the counter
\* at OSC_DUR.
EdgeCycleEndsAtMax ==
  CycleEnd /\ edgeSeen => isOscillating = OSC_DUR

\* C4 amended: after an edge in the arm window the counter is OSC_DUR from the
\* end of the transient detector up to the encoder; the encoder of that cycle
\* shows OSCILLATING and decrements once, so the cycle ends at OSC_DUR - 1.
EdgeCycleEndsBelowMax ==
  /\ pc \in {"readUp", "pulldown", "readDown", "release", "adc3_start",
              "adc3_wait", "slow", "override", "encode"} /\ edgeSeen
       => isOscillating = OSC_DUR
  /\ CycleEnd /\ edgeSeen => isOscillating = OSC_DUR - 1 /\ ShowsOsc

\* a cycle with an in-window edge has ended
EdgeCycleSeen ==
  CycleEnd /\ edgeSeen /\ ~slowFired /\ isOscillating = OSC_DUR - 1 /\ ShowsOsc

\* C5 as stated: in each of the OSC_DUR cycles that follow a cycle with an
\* in-window edge, with no detector firing in them, OSCILLATING is shown.
OscShownForDurCycles ==
  CycleEnd /\ since \in 1..OSC_DUR => ShowsOsc

\* C5 amended: OSCILLATING is shown in each of the OSC_DUR - 1 cycles that
\* follow (OSC_DUR cycles counting the triggering one), the counter going down
\* by one per cycle; the OSC_DUR-th following cycle starts with the counter at 0
\* and does not show it.
OscShownForDurMinusOneCycles ==
  /\ CycleEnd /\ since \in 1..(OSC_DUR - 1)
       => ShowsOsc /\ isOscillating = OSC_DUR - 1 - since
  /\ CycleEnd /\ since >= OSC_DUR => ~ShowsOsc /\ isOscillating = 0

\* the last of the following cycles that shows OSCILLATING has ended
LastOscCycleSeen ==
  CycleEnd /\ since = OSC_DUR - 1 /\ ShowsOsc /\ isOscillating = 0

\* the end of a cycle in which no detector fired, against the counter the
\* cycle started with
DecayStepState ==
  CycleEnd /\ ~edgeSeen /\ ~slowFired
    => /\ startCount > 0 => ShowsOsc /\ isOscillating = startCount - 1
       /\ startCount = 0 => ~ShowsOsc /\ isOscillating = 0
       /\ startCount >= 0

\* C6: a cycle in which no detector fired and which started with the counter
\* at n > 0 shows OSCILLATING and ends at n - 1; one that started at 0 ends at 0
\* and does not show it.  The counter goes down only in the encoder, by one.
DecayStep ==
  /\ []DecayStepState
  /\ [][isOscillating' < isOscillating
         => pc = "encode" /\ isOscillating' = isOscillating - 1]_vars

\* a cycle in which no detector fired and the counter decayed by one has ended
DecayStepSeen ==
  CycleEnd /\ ~edgeSeen /\ ~slowFired /\ startCount = OSC_DUR - 1
    /\ isOscillating = OSC_DUR - 2 /\ ShowsOsc

\* C7: the slow detector assigns the counter exactly when the floating flag of
\* this cycle is zero and the classification went from LOW in the previous
\* cycle to HIGH in this one, or from HIGH to LOW; a cycle in which it fired
\* ends showing OSCILLATING.
SlowDetectorExact ==
  /\ pc = "override"
       => (slowFired <=>
             /\ isFloating = 0
             /\ cycles = 1
             /\ (isHigh /\ prevLow) \/ (isLow /\ prevHigh))
  /\ CycleEnd /\ slowFired => ShowsOsc
\* C8: once the calibration reading of the cycle is taken, the thresholds in
\* use are the CMOS pair when that reading is below 768 and the TTL pair
\* otherwise, whatever the earlier cycles read, and the classification of the
\* cycle is made against that pair.
ThresholdsFollowSwitch ==
  /\ pc \notin {"adc0_start", "adc0_wait"}
       => /\ valSwitch < 768 => valLow = 307 /\ valHigh = 716
          /\ valSwitch >= 768 => valLow = 164 /\ valHigh = 409
  /\ Classified
       => /\ isHigh <=> valProbe > (IF valSwitch < 768 THEN 716 ELSE 409)
          /\ isLow <=> valProbe < (IF valSwitch < 768 THEN 307 ELSE 164)

\* the switch reads CMOS in a cycle that follows one classified HIGH against
\* the TTL pair, and the same probe voltage is no longer HIGH
ThresholdsFollowSwitchSeen ==
  pc = "slow" /\ lastHigh /\ cycles = 1 /\ valSwitch = 767 /\ valProbe = 410
    /\ ~isHigh /\ valHigh = 716

\* C9: isHigh holds exactly when the reading is above the high threshold in
\* use, isLow exactly when it is below the low threshold in use, a reading equal
\* to a threshold gives neither, and the two flags are never both set.
LevelClassification ==
  /\ Classified
       => /\ isHigh <=> valProbe > valHigh
          /\ isLow <=> valProbe < valLow
          /\ valProbe = valHigh \/ valProbe = valLow => ~isHigh /\ ~isLow
          /\ <<valLow, valHigh>> \in {<<TTL_LOW, TTL_HIGH>>, <<CMOS_LOW, CMOS_HIGH>>}
  /\ ~(isHigh /\ isLow)

\* a reading equal to the high threshold has been classified
LevelClassificationSeen ==
  pc = "slow" /\ valProbe = valHigh /\ ~isHigh /\ ~isLow

FloatingWhenReadsDiffer ==
  AfterFloatCheck /\ upLevel # downLevel => isFloating # 0

\* C12: a floating check that follows the previous cycle's check with no
\* change of the line state in between gives the same flag as that check did.
FloatingCheckIdempotent ==
  AfterFloatCheck /\ prevFloating # -1 => isFloating = prevFloating

\* an undriven line has been found floating in two cycles in a row, the first
\* of which went on to show OSCILLATING with the flag overridden
FloatingCheckIdempotentSeen ==
  /\ pc = "release" /\ prevFloating = 8 /\ isFloating = 8
  /\ line = "open" /\ isOscillating # 0

\* C13: PB4 is released (input, no pull-up) whenever an ADC conversion is
\* started or running and at every cycle boundary; it is an output only from
\* the pull-up of line 96 to the release of line 110.
BiasRelease ==
  /\ pc \notin BiasStages => BiasReleased
  /\ BitAnd(ADCSRA, 64) # 0 => pc \in {"adc0_wait", "adc3_wait"} /\ BiasReleased
  /\ pc \in {"adc0_start", "adc3_start"} => BiasReleased
  /\ BitAnd(DDRB, 16) # 0 => pc \in BiasStages

\* the probe conversion runs after an undriven line has followed the bias
BiasReleaseSeen ==
  /\ pc = "adc3_wait" /\ BitAnd(ADCSRA, 64) # 0 /\ ADMUX = 3
  /\ upLevel = 1 /\ downLevel = 0 /\ BiasReleased

\* C14: a non-floating cycle with isHigh set and the counter nonzero at the
\* encoder ends with both bits of the HIGH pattern 0b101 still set.
OscKeepsHighBits ==
  CycleEnd /\ isFloating = 0 /\ isHigh /\ OscAtEncoder => BitAnd(LEDs, 5) = 5

\* C15: the LED bits at the end of a cycle are given by the cycle's final
\* floating flag, isHigh, isLow and whether the counter was nonzero at the
\* encoder, whatever the LED bits were before; a non-floating cycle with
\* neither level and counter 0 ends with all three bits 0.
LEDsRecomputed ==
  CycleEnd
    => /\ LEDs = IF isFloating # 0 THEN 4
                 ELSE IF OscAtEncoder THEN (IF isLow THEN 3 ELSE 1)
                 ELSE IF isHigh THEN 5
                 ELSE IF isLow THEN 2
                 ELSE 0
       /\ isFloating = 0 /\ ~isHigh /\ ~isLow /\ ~OscAtEncoder => LEDs = 0

\* all LEDs are off at the end of the cycle after the last one that showed
\* OSCILLATING
LEDsRecomputedSeen ==
  /\ CycleEnd /\ LEDs = 0 /\ isFloating = 0 /\ ~isHigh /\ ~isLow
  /\ ~OscAtEncoder /\ since = OSC_DUR

\* the watcher is armed or an interrupt pending only inside the arm window;
\* lines 122, 124 and 132-135 run with PCMSK = 0 and no interrupt pending
NoCounterRaceState ==
  /\ ~NoIrq \/ PCMSK # 0 => pc \in ArmedStages
  /\ pc \in {"slow", "override", "encode"} => PCMSK = 0 /\ NoIrq

\* C16: the pin change flag is raised and the ISR writes the counter only
\* while PCMSK selects the pin (lines 100-102); lines 122, 124 and 132-135 run
\* with PCMSK = 0 and no interrupt pending; the counter changes only by the ISR
\* in the arm window or by lines 122 and 135 outside it, so no ISR write falls
\* between the read and the write-back of the decrement.
NoCounterRace ==
  /\ []NoCounterRaceState
  /\ [][isOscillating' # isOscillating
         => IF pc' = pc
            THEN PCMSK = 8 /\ ~NoIrq /\ isOscillating' = OSC_DUR
            ELSE pc \in {"slow", "encode"} /\ PCMSK = 0 /\ NoIrq]_vars

\* the ISR has written the counter inside the arm window
NoCounterRaceSeen ==
  /\ pc \in ArmedStages /\ PCMSK = 8 /\ edgeSeen /\ NoIrq
  /\ startCount = -1 /\ isOscillating = OSC_DUR

\* the order of the stages of one cycle, lines 84-137
Stages ==
  <<"adc0_start", "adc0_wait", "pullup", "clear", "arm", "window", "disarm",
    "readUp", "pulldown", "readDown", "release", "adc3_start", "adc3_wait",
    "slow", "override", "encode">>

\* C17: main() moves from each stage only to the next one of the cycle
\* (threshold selection, transient detection, floating detection, level
\* classification, slow detection, output encoding) and from output encoding
\* to the threshold selection of the next cycle; with every started ADC
\* conversion completing, output encoding and the start of the next cycle are
\* reached again and again.
CycleProgress ==
  /\ [][pc' # pc
         => \E i \in 1..Len(Stages) :
              pc = Stages[i] /\ pc' = Stages[(i % Len(Stages)) + 1]]_vars
  /\ []<>(pc = "encode")
  /\ []<>(pc = "adc0_start" /\ cycles = 1)

\* output encoding is reached in a cycle in which the ISR has run
CycleProgressSeen ==
  pc = "encode" /\ cycles = 1 /\ edgeSeen /\ NoIrq

\* C18: the pin change flag is raised only inside the arm window and only by
\* an edge of the line; the counter is assigned in a cycle only if such an edge
\* occurred or the slow detector fired; a line whose state does not change
\* sees no edge, and an undriven one never has its counter assigned, although
\* its level follows the bias.
InWindowEdgesOnly ==
  /\ ~NoIrq => pc \in ArmedStages /\ edgeSeen
  /\ edgeSeen => pc \notin {"adc0_wait", "pullup", "clear", "arm"}
  /\ startCount = -1 => edgeSeen \/ slowFired
  /\ steady => ~edgeSeen /\ (startCount = -1 => slowFired)
  /\ steady /\ line = "open" => startCount # -1

\* an undriven line has followed the pull-up and the pull-down and the counter
\* is still 0
InWindowEdgesOnlySeen ==
  /\ pc = "adc3_start" /\ steady /\ line = "open"
  /\ upLevel = 1 /\ downLevel = 0 /\ startCount = 0 /\ isOscillating = 0

\* C19: once an edge has been served or the slow detector has fired in a
\* cycle, the counter is OSC_DUR whatever it was at the start of the cycle; the
\* cycle ends with the counter at OSC_DUR - 1, which is not 0, and shows
\* OSCILLATING.
RetriggerOverwrites ==
  /\ (edgeSeen \/ slowFired) /\ NoIrq /\ pc # "adc0_start"
       => isOscillating = OSC_DUR
  /\ CycleEnd /\ (edgeSeen \/ slowFired)
       => isOscillating = OSC_DUR - 1 /\ isOscillating # 0 /\ ShowsOsc

\* an edge has been served in a cycle that started with the counter at
\* OSC_DUR - 11
RetriggerOverwritesSeen ==
  pc = "encode" /\ edgeSeen /\ since = 10 /\ isOscillating = OSC_DUR

\* C20: a non-floating cycle with isLow set and the counter nonzero at the
\* encoder ends with the LED bits 0b011: the LOW bit is kept, and the pattern
\* is neither LOW alone nor OSCILLATING alone.
OscKeepsLow ==
  CycleEnd /\ isFloating = 0 /\ isLow /\ OscAtEncoder
    => BitAnd(LEDs, 2) = 2 /\ LEDs = 3 /\ LEDs # 2 /\ LEDs # 1

\* a LOW reading in a cycle that started with the counter running
OscKeepsLowSeen ==
  CycleEnd /\ isFloating = 0 /\ isLow /\ startCount > 0 /\ LEDs = 3

\* C21: line 123 overwrites lastHigh/lastLow with the cycle's classification
\* in every cycle, floating or not, determinate or not; from the second cycle
\* on the slow detector reads the classification of the cycle just before, so
\* it does not fire after a cycle with neither level, and LOW, neither, HIGH
\* over three cycles does not fire it.
PriorOverwritten ==
  /\ pc \in {"override", "encode"} => lastHigh = isHigh /\ lastLow = isLow
  /\ cycles = 1 /\ pc \notin {"override", "encode"}
       => lastHigh = prevHigh /\ lastLow = prevLow
  /\ pc \in {"override", "encode"} /\ cycles = 1 /\ ~prevHigh /\ ~prevLow
       => ~slowFired
  /\ pc \in {"override", "encode"} /\ lowThenMid /\ isHigh => ~slowFired

\* a HIGH reading, not floating and without an edge, after a cycle with
\* neither level that followed a LOW one: the slow detector has not fired
PriorOverwrittenSeen ==
  /\ pc = "override" /\ lowThenMid /\ isHigh /\ lastHigh
  /\ isFloating = 0 /\ ~edgeSeen /\ ~slowFired /\ isOscillating = 0

\* C22: the counter is within 0..OSC_DUR in every state; the encoder leaves a
\* zero counter at zero, so the uint8_t never wraps to 255.
CounterRange ==
  /\ isOscillating \in 0..OSC_DUR
  /\ CycleEnd => isOscillating \in 0..(OSC_DUR - 1)
  /\ CycleEnd /\ startCount = 0 => isOscillating = 0

\* the encoder has run its else branch with the counter at 0, after a decay
CounterRangeSeen ==
  /\ CycleEnd /\ isFloating = 0 /\ isHigh /\ startCount = 0
  /\ isOscillating = 0 /\ quiet = OSC_DUR

\* C23: k cycles after the last cycle in which a detector assigned the
\* counter, the counter is OSC_DUR - 1 - k; it is 0 from the (OSC_DUR - 1)-th
\* such cycle on, OSCILLATING is not shown from the OSC_DUR-th on, and the
\* counter stays 0 until a detector assigns it again; it is 0 as long as no
\* detector has assigned it at all.
OscDisplayEnds ==
  /\ CycleEnd /\ quiet \in 0..(OSC_DUR - 1)
       => isOscillating = OSC_DUR - 1 - quiet
  /\ CycleEnd /\ quiet >= OSC_DUR => ~ShowsOsc
  /\ quiet >= OSC_DUR - 1 /\ startCount # -1 => isOscillating = 0
  /\ quiet = -1 /\ startCount # -1 => isOscillating = 0

\* OSC_DUR cycles after the slow detector last fired: counter 0, not shown
OscDisplayEndsSeen ==
  CycleEnd /\ quiet = OSC_DUR /\ ~byEdge /\ isOscillating = 0 /\ ~ShowsOsc

\* C24: in the first cycle after reset, with no edge in the arm window, the
\* counter stays 0 and the slow detector does not fire.
NoSpuriousOscAtStart ==
  cycles = 0 /\ ~edgeSeen => isOscillating = 0 /\ ~slowFired
====
